---- MODULE Spec2Model ----
(***************************************************************************)
(* Model of the node execution engine of tpc-graph-exec-rs: NodeInstance   *)
(* threads (src/src/node.rs) connected in a linear chain by bounded SPSC   *)
(* ring buffers (rtrb, created by connect_nodes! in src/src/lib.rs), and   *)
(* the Graph handle registry (src/src/graph.rs).                           *)
(*                                                                         *)
(* Topology: node 1 -> node 2 -> ... -> node NumNodes.  Queue q (1 <= q <  *)
(* NumNodes) connects node q (producer end, output_tx) to node q+1         *)
(* (consumer end, input_rx).  Queue 0, present when extInput holds, is fed *)
(* by a Producer the caller keeps for itself and ends in node 1; when      *)
(* extInput is false node 1 has no input and is a self-driven source.      *)
(* The last node has no output connection.                                 *)
(*                                                                         *)
(* The holders of the queue ends are state (txAt, rxAt): the example chain *)
(* is the wiring the pipeline specifications start from, and SpecWiring    *)
(* runs set_receiver, set_sender and connect_nodes! on fresh instances.    *)
(*                                                                         *)
(* Each atomic operation of a node thread on shared state (pop, push,      *)
(* is_abandoned, the drop of its queue ends) is its own step, so that the  *)
(* interleavings of two threads around one queue are those of the code.    *)
(***************************************************************************)
EXTENDS Integers, Sequences, FiniteSets, TLC

\* ------------------------------------------------------------------ bounds
\* Capacity given to every connect_nodes! call.
Cap == 2
\* Most items the origin (caller-held Producer or self-driven source) sends.
MaxItems == 3
\* The backpressure scenario: five more items than a queue holds.
BackpressureItems == Cap + 5
\* How many pauses of the source are told apart.
MaxPauses == 2

\* ------------------------------------------------------------ the pipeline
\* The chain built by the example pipeline: source -> transform -> sink.
NumNodes == 3

Nodes == 1..NumNodes
Queues == 0..(NumNodes - 1)

\* Option<T>: None is the empty tuple, Some(x) the one-element tuple.
None == << >>
Some(x) == << x >>
IsSome(o) == Len(o) = 1
Unwrap(o) == o[1]

VARIABLES
    extInput,   \* configuration: node 1 is fed by a caller-held Producer (queue 0)
    nItems,     \* configuration: how many items the origin has to send
    kind,       \* configuration: the Node implementation each instance owns
    spawnOk,    \* environment: whether the OS can create the thread of each node
    pinRes,     \* environment: "none" (no cpu_core given), or whether pinning works
    prioOk,     \* environment: whether the thread may raise its priority
    txAt,       \* who holds the Producer of each ring buffer: a node, CallerHeld,
                \* EndDropped, or NotMade while the buffer does not exist
    rxAt,       \* who holds the Consumer of each ring buffer, likewise
    pc,         \* position of each NodeInstance / its thread
    buf,        \* content of each ring buffer, oldest first
    data,       \* node_output / data: the value a node is about to send (Option)
    srcCount,   \* items the origin has produced so far
    pauses,     \* history: process calls of the source that returned None, up to MaxPauses
    extDropped, \* the caller has dropped its Producer of queue 0
    pushed,     \* history: items successfully pushed to each queue
    procIn,     \* history: items passed to process(Some(item)) by each node
    popped,     \* history: items each node got from a successful pop
    sawNone,    \* history: the node has called process(None)
    events,     \* history: lifecycle log of each node (start, proc, stop)
    warned,     \* history: the warnings each thread logged at start-up
    telem,      \* telemetry of each thread: bytes_processed_cntr, the three time
                \* accumulators (0, or 1 for any positive time), whether a second
                \* has passed since telem_time, and whether a report was emitted
    handles,    \* Graph.handles: registered node handles, in add_handle order
    gstate,     \* Graph: "open", "waiting" (inside wait), "returned"
    joined      \* the handles wait has joined so far, in join order

vars == << extInput, nItems, kind, spawnOk, pinRes, prioOk, txAt, rxAt, pc, buf, data, srcCount, pauses, extDropped, pushed, procIn,
           popped, sawNone, events, warned, telem, handles, gstate, joined >>
envVars == << extInput, nItems, kind, spawnOk, pinRes, prioOk >>
wireVars == << txAt, rxAt >>
cfgVars == << envVars, wireVars >>
graphVars == << handles, gstate, joined >>
flowVars == << pc, buf, data, srcCount, pauses, extDropped, pushed, procIn, popped, sawNone, events, warned, telem >>

\* ------------------------------------------------------- node logic (user)
\* MultiplierNode { factor: 2 }
Mul2(x) == Some(x * 2)
\* FilterEvenNode
KeepEven(x) == IF x % 2 = 0 THEN Some(x) ELSE None
\* SinkNode / PrinterNode
Sink(x) == None

\* Node::process(Some(x)) of the implementation k
Process(k, x) ==
    CASE k = "mul2" -> Mul2(x)
      [] k = "keep_even" -> KeepEven(x)
      [] k = "sink" -> Sink(x)
      [] OTHER -> None

\* SourceNode::process(None): the next item while data is left, then None
SourceProcess(count) == IF count < nItems THEN Some(count + 1) ELSE None

\* ------------------------------------------------------------ connections
\* The holder of a queue end that is in no instance: the caller's local
\* (let (tx, rx) = ...), nobody any more, or nobody yet.
CallerHeld == 0
EndDropped == 0 - 1
NotMade == 0 - 2

\* The queue ends an instance holds in input_rx and in output_tx.
InputRx(n) == { q \in Queues : rxAt[q] = n }
OutputTx(n) == { q \in Queues : txAt[q] = n }
\* input_rx is Some
HasInput(n) == InputRx(n) # {}
\* output_tx is Some
HasOutput(n) == OutputTx(n) # {}
\* The queue behind input_rx and the one behind output_tx.
InQ(n) == CHOOSE q \in InputRx(n) : TRUE
OutQ(n) == CHOOSE q \in OutputTx(n) : TRUE

\* The thread of n has ended.
Terminated(n) == pc[n] \in {"stopped", "panicked"}

\* A loop exit that gives the queue ends up before on_stop is called.
EndsDroppedAtLoopExit(n) ==
    Terminated(n) \/ pc[n] \in {"spawn_failed", "stopping", "exiting"}
\* The NodeInstance has been dropped, and both queue ends with it: by the
\* thread that ended, or with the closure that spawn could not start.
EndsDropped(n) == Terminated(n) \/ pc[n] = "spawn_failed"

\* The ring buffers that exist, and which of their two ends are still held:
\* an end lives as long as its holder keeps it.
Connected == { q \in Queues : txAt[q] # NotMade }
EndAlive(holder) ==
    \/ holder = CallerHeld
    \/ holder \in Nodes /\ ~EndsDropped(holder)
ProducerAlive(q) == EndAlive(txAt[q]) /\ ~(txAt[q] = CallerHeld /\ extDropped)
ConsumerAlive(q) == EndAlive(rxAt[q])

\* Consumer::is_abandoned(): the producer end of the queue is gone
RxAbandoned(n) == ~ProducerAlive(InQ(n))
\* Producer::is_abandoned(): the consumer end of the queue is gone
TxAbandoned(n) == ~ConsumerAlive(OutQ(n))

\* ------------------------------------------------------------------- init
MidKinds == {"mul2", "keep_even"}
LastKinds == {"sink", "mul2"}

\* bytes_processed_cntr: 0 (NodeInstance::new); the accumulators as they are
\* set before the loop, telem_time = Instant::now().
TelemStart == [bytes |-> 0, recv |-> 0, proc |-> 0, send |-> 0, due |-> FALSE, reported |-> FALSE]

InitFlow ==
    /\ pc = [n \in Nodes |-> "created"]
    /\ buf = [q \in Queues |-> << >>]
    /\ data = [n \in Nodes |-> None]
    /\ srcCount = 0
    /\ pauses = 0
    /\ extDropped = FALSE
    /\ pushed = [q \in Queues |-> << >>]
    /\ procIn = [n \in Nodes |-> << >>]
    /\ popped = [n \in Nodes |-> << >>]
    /\ sawNone = [n \in Nodes |-> FALSE]
    /\ events = [n \in Nodes |-> << >>]
    /\ warned = [n \in Nodes |-> {}]
    /\ telem = [n \in Nodes |-> TelemStart]

InitGraph ==
    /\ handles = << >>
    /\ gstate = "open"
    /\ joined = << >>

\* The wiring of the example chain: connect_nodes!(n -> n+1) for every
\* neighbour pair, and queue 0 into node 1 when the caller feeds the chain.
ChainWired ==
    /\ txAt = [q \in Queues |-> IF q >= 1 THEN q ELSE IF extInput THEN CallerHeld ELSE NotMade]
    /\ rxAt = [q \in Queues |-> IF q >= 1 \/ extInput THEN q + 1 ELSE NotMade]
\* Instances as NodeInstance::new leaves them: input_rx and output_tx None.
Unwired ==
    /\ txAt = [q \in Queues |-> NotMade]
    /\ rxAt = [q \in Queues |-> NotMade]

InitKinds ==
    /\ extInput \in BOOLEAN
    /\ kind \in [Nodes -> MidKinds \cup LastKinds \cup {"source"}]
    /\ kind[1] \in (IF extInput THEN MidKinds ELSE {"source"})
    /\ \A n \in Nodes : 1 < n /\ n < NumNodes => kind[n] \in MidKinds
    /\ kind[NumNodes] \in LastKinds
InitCfg == InitKinds /\ ChainWired

\* The OS creates every thread it is asked for.
AllSpawnable == spawnOk = [n \in Nodes |-> TRUE]

\* Every outcome of pinning and of raising the priority, thread by thread.
AnyStartup ==
    /\ pinRes \in [Nodes -> {"none", "ok", "failed"}]
    /\ prioOk \in [Nodes -> BOOLEAN]
\* Every thread is pinned to its core and raised to the maximum priority.
QuietStartup ==
    /\ pinRes = [n \in Nodes |-> "ok"]
    /\ prioOk = [n \in Nodes |-> TRUE]

\* A pipeline whose origin sends up to MaxItems items.
Init ==
    /\ InitCfg /\ nItems \in 0..MaxItems /\ spawnOk \in [Nodes -> BOOLEAN] /\ QuietStartup
    /\ InitFlow /\ InitGraph

\* A self-driven source with BackpressureItems items to send.
InitBackpressure ==
    /\ InitCfg /\ ~extInput /\ nItems = BackpressureItems /\ spawnOk \in [Nodes -> BOOLEAN]
    /\ QuietStartup
    /\ InitFlow /\ InitGraph

\* A pipeline whose origin has one item more than a queue holds.
InitOverfull ==
    /\ InitCfg /\ nItems = Cap + 1 /\ spawnOk \in [Nodes -> BOOLEAN] /\ QuietStartup
    /\ InitFlow /\ InitGraph

\* A self-driven chain whose threads meet every start-up outcome.
InitStartup ==
    /\ InitCfg /\ ~extInput /\ nItems = Cap + 1 /\ AllSpawnable /\ AnyStartup
    /\ InitFlow /\ InitGraph

\* A self-driven chain with more items than a queue holds.
InitTelemetry ==
    /\ InitCfg /\ ~extInput /\ nItems = Cap + 1 /\ spawnOk \in [Nodes -> BOOLEAN] /\ QuietStartup
    /\ InitFlow /\ InitGraph

\* Fresh instances of a self-driven chain, before any connection is made.
InitWiring ==
    /\ InitKinds /\ ~extInput /\ nItems = 0 /\ AllSpawnable /\ QuietStartup /\ Unwired
    /\ InitFlow /\ InitGraph

\* A ring buffer that takes every push.
PushOkAlways(b) == TRUE
\* A ring buffer that keeps one slot free and reports Full one item early.
PushOkReserve(b) == Len(b) < Cap - 1
\* rtrb push(): Ok when there is room, Err(Full(data)) otherwise
PushOk(b) == Len(b) < Cap

\* ---------------------------------------------------------------- actions
\* The caller pushes the next item into queue 0 through the Producer it kept.
ExtPush ==
    /\ extInput /\ ~extDropped
    /\ srcCount < nItems
    /\ PushOk(buf[0])
    /\ buf' = [buf EXCEPT ![0] = Append(@, srcCount + 1)]
    /\ pushed' = [pushed EXCEPT ![0] = Append(@, srcCount + 1)]
    /\ srcCount' = srcCount + 1
    /\ UNCHANGED << pc, data, pauses, extDropped, procIn, popped, sawNone, events, warned, telem, cfgVars, graphVars >>

\* The caller drops its Producer of queue 0 after any number of items.
ExtDrop ==
    /\ extInput /\ ~extDropped
    /\ extDropped' = TRUE
    /\ UNCHANGED << pc, buf, data, srcCount, pauses, pushed, procIn, popped, sawNone, events, warned, telem, cfgVars, graphVars >>

\* A spawn whose thread runs although the OS reported an error.
SpawnResultRunsAnyway(n) == "starting"
\* thread::Builder::spawn: Ok(handle) and the thread starts, or Err, and the
\* closure that owns the instance is dropped without ever running.
SpawnResult(n) == IF spawnOk[n] THEN "starting" ELSE "spawn_failed"

\* NodeInstance::spawn: the instance is moved into the closure of a new thread.
Spawn(n) ==
    /\ pc[n] = "created"
    /\ pc' = [pc EXCEPT ![n] = SpawnResult(n)]
    /\ UNCHANGED << buf, data, srcCount, pauses, extDropped, pushed, procIn, popped, sawNone, events, warned, telem, cfgVars, graphVars >>

\* The warnings of thread start-up: core_affinity::set_for_current returned
\* false for the given core; set_current_thread_priority returned Err.
StartupWarnings(n) ==
    (IF pinRes[n] = "failed" THEN {"pin"} ELSE {})
        \cup (IF prioOk[n] THEN {} ELSE {"prio"})

\* A start-up that gives the thread up when it cannot get its resources.
AfterStartupStrict(n) == IF StartupWarnings(n) = {} THEN "loop" ELSE "exiting"
\* After pinning and priority, whatever their outcome: on_start, then the loop.
AfterStartup(n) == "loop"

\* Thread start-up up to the loop: pinning and priority are tried, a failure
\* is logged, and on_start is called.
OnStart(n) ==
    /\ pc[n] = "starting"
    /\ warned' = [warned EXCEPT ![n] = StartupWarnings(n)]
    /\ events' = [events EXCEPT ![n] = Append(@, "start")]
    /\ pc' = [pc EXCEPT ![n] = AfterStartup(n)]
    /\ UNCHANGED << buf, data, srcCount, pauses, extDropped, pushed, procIn, popped, sawNone, telem, cfgVars, graphVars >>

\* ---- telemetry (node.rs 148-151, 174-178, 212, 215-234)
\* DataSize::data_size of an i32 item
DataSize(x) == 4

\* After a successful pop: the receive time, the bytes, the process time.
TelemRecv(t, item) == [t EXCEPT !.recv = 1, !.bytes = @ + DataSize(item), !.proc = 1]
\* After a successful push: the send time.
TelemSend(t) == [t EXCEPT !.send = 1]

\* A report that clears the byte counter and leaves the accumulators.
TelemReportKeepsTimes(t) == [t EXCEPT !.bytes = 0, !.due = FALSE, !.reported = TRUE]
\* info!(..), then the counter, telem_time and the accumulators start over.
TelemReport(t) ==
    [bytes |-> 0, recv |-> 0, proc |-> 0, send |-> 0, due |-> FALSE, reported |-> TRUE]

\* The end of a loop iteration: report when a second has passed.
TelemEnd(t) == IF t.due THEN TelemReport(t) ELSE t

\* Telemetry after process returned out: the iteration ends here unless there
\* is a value to send.
TelemAfterProcess(t, out) == IF IsSome(out) THEN t ELSE TelemEnd(t)

\* The clock: a second has passed since the thread of n set telem_time.
Tick(n) ==
    /\ pc[n] \in {"loop", "rx_empty", "send", "tx_full"}
    /\ ~telem[n].due
    /\ telem' = [telem EXCEPT ![n].due = TRUE]
    /\ UNCHANGED << pc, buf, data, srcCount, pauses, extDropped, pushed, procIn, popped, sawNone,
                    events, warned, cfgVars, graphVars >>

\* ---- receive side of the main loop (node.rs 154-184)
\* A pop that hands out the newest item instead of the oldest.
PopItemNewest(b) == b[Len(b)]
\* rtrb pop(): the oldest item
PopItem(b) == Head(b)
\* A pop that does not advance the read position.
PopRestKept(b) == b
\* rtrb pop(): what stays in the buffer
PopRest(b) == Tail(b)

\* An empty pop that ends the loop, whether or not the producer is there.
AfterRxEmptyBreak(n) == "stopping"
\* An empty pop that only ever yields and polls again.
AfterRxEmptySpin(n) == "loop"
\* After pop() returned Err (empty): break 'main_loop when the producer end is
\* gone, otherwise yield and poll again.
AfterRxEmpty(n) == IF RxAbandoned(n) THEN "stopping" ELSE "loop"

\* A receive branch that hands process nothing.
RxArgNone(item) == None
\* The argument of process for a popped item: process(Some(rx_data))
RxArg(item) == Some(item)
\* The argument of process without an input channel: process(None)
NoInputArg == None

\* Node::process(arg) of the implementation k that reads its input
ProcessArg(k, arg) == IF IsSome(arg) THEN Process(k, Unwrap(arg)) ELSE None

\* Histories of the arguments process was called with.
NoteSome(seen, arg) == IF IsSome(arg) THEN Append(seen, Unwrap(arg)) ELSE seen
NoteNone(seen, arg) == seen \/ ~IsSome(arg)

\* A loop that takes None from process for the end of the stream.
AfterProcessNoneStops(out) == IF IsSome(out) THEN "send" ELSE "stopping"
\* Where the thread goes once process has returned out.
AfterProcess(out) == IF IsSome(out) THEN "send" ELSE "loop"

\* Log of lifecycle calls; consecutive process calls are logged once.
LogProc(log) == IF log # << >> /\ log[Len(log)] = "proc" THEN log ELSE Append(log, "proc")

\* input_ch.pop(): Ok(data) is passed to process at once; Err leads to the
\* is_abandoned() check, which is a later step of the thread.
RecvPop(n) ==
    /\ pc[n] = "loop"
    /\ HasInput(n)
    /\ IF buf[InQ(n)] # << >>
       THEN LET item == PopItem(buf[InQ(n)])
                arg == RxArg(item)
                out == ProcessArg(kind[n], arg)
            IN /\ buf' = [buf EXCEPT ![InQ(n)] = PopRest(@)]
               /\ popped' = [popped EXCEPT ![n] = Append(@, item)]
               /\ procIn' = [procIn EXCEPT ![n] = NoteSome(@, arg)]
               /\ sawNone' = [sawNone EXCEPT ![n] = NoteNone(@, arg)]
               /\ telem' = [telem EXCEPT ![n] = TelemAfterProcess(TelemRecv(@, item), out)]
               /\ events' = [events EXCEPT ![n] = LogProc(@)]
               /\ data' = [data EXCEPT ![n] = out]
               /\ pc' = [pc EXCEPT ![n] = AfterProcess(out)]
       ELSE /\ pc' = [pc EXCEPT ![n] = "rx_empty"]
            /\ UNCHANGED << buf, procIn, popped, sawNone, events, data, telem >>
    /\ UNCHANGED << srcCount, pauses, extDropped, pushed, warned, cfgVars, graphVars >>

\* input_ch.is_abandoned() after an empty pop.
RecvCheck(n) ==
    /\ pc[n] = "rx_empty"
    /\ pc' = [pc EXCEPT ![n] = AfterRxEmpty(n)]
    /\ UNCHANGED << buf, data, srcCount, pauses, extDropped, pushed, procIn, popped, sawNone, events, warned, telem, cfgVars, graphVars >>

\* No input channel: process(None).
SourceStep(n) ==
    /\ pc[n] = "loop"
    /\ ~HasInput(n)
    /\ LET arg == NoInputArg
           out == SourceProcess(srcCount)
       IN /\ srcCount' = IF IsSome(out) THEN srcCount + 1 ELSE srcCount
          /\ pauses' = IF IsSome(out) \/ pauses = MaxPauses THEN pauses ELSE pauses + 1
          /\ procIn' = [procIn EXCEPT ![n] = NoteSome(@, arg)]
          /\ sawNone' = [sawNone EXCEPT ![n] = NoteNone(@, arg)]
          /\ telem' = [telem EXCEPT ![n] = TelemAfterProcess(@, out)]
          /\ events' = [events EXCEPT ![n] = LogProc(@)]
          /\ data' = [data EXCEPT ![n] = out]
          /\ pc' = [pc EXCEPT ![n] = AfterProcess(out)]
    /\ UNCHANGED << buf, extDropped, pushed, popped, warned, cfgVars, graphVars >>

\* ---- send side of the main loop (node.rs 188-213)
\* A value with no output channel is dropped and the loop goes on.
AfterSomeNoOutputIgnore == "loop"
\* output_tx.as_mut().expect(..): a value with no output channel panics.
AfterSomeNoOutput == "panicked"

\* A full push that gives the value up and goes on with the loop.
AfterTxFullDrop(n) == "loop"
\* A full push that ends the loop, whether or not the consumer is there.
AfterTxFullBreak(n) == "stopping"
\* After push() returned Full: break 'main_loop when the consumer end is gone,
\* otherwise yield and push the same value again.
AfterTxFull(n) == IF TxAbandoned(n) THEN "stopping" ELSE "send"

\* A push that is refused as soon as the consumer end is gone.
CanPushChecked(n) == PushOk(buf[OutQ(n)]) /\ ~TxAbandoned(n)
\* output_ch.push(data) returns Ok: only the fill level decides.
CanPush(n) == PushOk(buf[OutQ(n)])

\* expect, then output_ch.push(data).
SendPush(n) ==
    /\ pc[n] = "send"
    /\ IF ~HasOutput(n)
       THEN /\ pc' = [pc EXCEPT ![n] = AfterSomeNoOutput]
            /\ data' = [data EXCEPT ![n] = None]
            /\ UNCHANGED << buf, pushed, telem >>
       ELSE IF CanPush(n)
            THEN /\ buf' = [buf EXCEPT ![OutQ(n)] = Append(@, Unwrap(data[n]))]
                 /\ pushed' = [pushed EXCEPT ![OutQ(n)] = Append(@, Unwrap(data[n]))]
                 /\ data' = [data EXCEPT ![n] = None]
                 /\ telem' = [telem EXCEPT ![n] = TelemEnd(TelemSend(@))]
                 /\ pc' = [pc EXCEPT ![n] = "loop"]
            ELSE /\ pc' = [pc EXCEPT ![n] = "tx_full"]
                 /\ UNCHANGED << buf, pushed, data, telem >>
    /\ UNCHANGED << srcCount, pauses, extDropped, procIn, popped, sawNone, events, warned, cfgVars, graphVars >>

\* output_ch.is_abandoned() after a full push; on break the value is dropped.
SendCheck(n) ==
    /\ pc[n] = "tx_full"
    /\ pc' = [pc EXCEPT ![n] = AfterTxFull(n)]
    /\ data' = [data EXCEPT ![n] = IF AfterTxFull(n) = "send" THEN @ ELSE None]
    /\ UNCHANGED << buf, srcCount, pauses, extDropped, pushed, procIn, popped, sawNone, events, warned, telem, cfgVars, graphVars >>

\* ---- after the loop (node.rs 237-239)
\* A loop exit that forgets on_stop.
OnStopSkipped(n) ==
    /\ pc[n] = "stopping"
    /\ pc' = [pc EXCEPT ![n] = "exiting"]
    /\ UNCHANGED << buf, data, srcCount, pauses, extDropped, pushed, procIn, popped, sawNone, events, warned, telem, cfgVars, graphVars >>

\* self.node.on_stop()
OnStop(n) ==
    /\ pc[n] = "stopping"
    /\ events' = [events EXCEPT ![n] = Append(@, "stop")]
    /\ pc' = [pc EXCEPT ![n] = "exiting"]
    /\ UNCHANGED << buf, data, srcCount, pauses, extDropped, pushed, procIn, popped, sawNone, warned, telem, cfgVars, graphVars >>

\* The closure returns: self is dropped, and with it both queue ends.
ThreadExit(n) ==
    /\ pc[n] = "exiting"
    /\ pc' = [pc EXCEPT ![n] = "stopped"]
    /\ UNCHANGED << buf, data, srcCount, pauses, extDropped, pushed, procIn, popped, sawNone, events, warned, telem, cfgVars, graphVars >>

NodeStep(n) ==
    \/ OnStart(n)
    \/ RecvPop(n)
    \/ RecvCheck(n)
    \/ SourceStep(n)
    \/ SendPush(n)
    \/ SendCheck(n)
    \/ OnStop(n)
    \/ ThreadExit(n)

\* ------------------------------------------------------------------ graph
Registered == { handles[i] : i \in 1..Len(handles) }

\* Graph::add_handle: the handle of a spawned instance is appended.
AddHandle(n) ==
    /\ gstate = "open"
    /\ pc[n] \notin {"created", "spawn_failed"}
    /\ n \notin Registered
    /\ handles' = Append(handles, n)
    /\ UNCHANGED << gstate, joined, flowVars, cfgVars >>

\* Graph::wait is called: the Graph is consumed, no handle can be added.
WaitStart ==
    /\ gstate = "open"
    /\ gstate' = "waiting"
    /\ UNCHANGED << handles, joined, flowVars, cfgVars >>

\* JoinHandle::join blocks until the thread has ended.
JoinReady(n) == Terminated(n)
\* JoinHandle::join returns Err when the thread panicked.
JoinIsErr(n) == pc[n] = "panicked"

\* A loop over the handles from the last registered to the first.
NextHandleReversed == handles[Len(handles) - Len(joined)]
\* `for handle in self.handles`: the handle the loop takes next
NextHandle == handles[Len(joined) + 1]

\* One turn of `for handle in self.handles { handle.join(); }`: the Result
\* of join is discarded.
WaitJoin ==
    /\ gstate = "waiting"
    /\ Len(joined) < Len(handles)
    /\ JoinReady(NextHandle)
    /\ joined' = Append(joined, NextHandle)
    /\ UNCHANGED << handles, gstate, flowVars, cfgVars >>

\* What the caller of wait gets once the loop is over.
WaitOutcome == "returned"

\* The for loop is over: wait returns.
WaitReturn ==
    /\ gstate = "waiting"
    /\ Len(joined) = Len(handles)
    /\ gstate' = WaitOutcome
    /\ UNCHANGED << handles, joined, flowVars, cfgVars >>

\* ------------------------------------------------------------------- next
\* ---------------------------------------------------------------- wiring
\* Ring buffers are numbered in the order of their creation.
UnmadeQueues == { q \in Queues : txAt[q] = NotMade }
NextQueue == CHOOSE q \in UnmadeQueues : \A p \in UnmadeQueues : q <= p

\* An assignment that keeps the end the field held before.
ReplacedEndStays(n) == n
\* `self.input_rx = Some(rx)` / `self.output_tx = Some(tx)`: the value the
\* field held before the assignment is dropped.
ReplacedEnd(n) == EndDropped

\* The holders after end `q` has been moved into the field of instance n.
MoveInto(at, q, n) ==
    [p \in Queues |-> IF p = q THEN n ELSE IF at[p] = n THEN ReplacedEnd(n) ELSE at[p]]

\* rtrb::RingBuffer::new(size): the caller holds both ends.
NewQueue ==
    /\ UnmadeQueues # {}
    /\ txAt' = [txAt EXCEPT ![NextQueue] = CallerHeld]
    /\ rxAt' = [rxAt EXCEPT ![NextQueue] = CallerHeld]
    /\ UNCHANGED << envVars, flowVars, graphVars >>

\* NodeInstance::set_receiver(rx) on an instance not yet spawned.
SetReceiver(n, q) ==
    /\ pc[n] = "created"
    /\ rxAt[q] = CallerHeld
    /\ rxAt' = MoveInto(rxAt, q, n)
    /\ UNCHANGED << txAt, envVars, flowVars, graphVars >>

\* NodeInstance::set_sender(tx) on an instance not yet spawned.
SetSender(n, q) ==
    /\ pc[n] = "created"
    /\ txAt[q] = CallerHeld
    /\ txAt' = MoveInto(txAt, q, n)
    /\ UNCHANGED << rxAt, envVars, flowVars, graphVars >>

\* connect_nodes!(t -> r, size): a new ring buffer, its Producer into t, its
\* Consumer into r.
ConnectNodes(t, r) ==
    /\ pc[t] = "created" /\ pc[r] = "created"
    /\ UnmadeQueues # {}
    /\ txAt' = MoveInto(txAt, NextQueue, t)
    /\ rxAt' = MoveInto(rxAt, NextQueue, r)
    /\ UNCHANGED << envVars, flowVars, graphVars >>

\* The caller wiring instances before it spawns them.
NextWiring ==
    \/ NewQueue
    \/ \E n \in Nodes, q \in Queues : SetReceiver(n, q)
    \/ \E n \in Nodes, q \in Queues : SetSender(n, q)
    \/ \E t, r \in Nodes : ConnectNodes(t, r)

\* The caller feeding queue 0.
ExtStep == ExtPush \/ ExtDrop

\* The caller driving a Graph.
GraphStep ==
    \/ \E n \in Nodes : AddHandle(n)
    \/ WaitStart
    \/ WaitJoin
    \/ WaitReturn

\* The pipeline with a caller that joins no handle through a Graph.
Next ==
    \/ ExtStep
    \/ \E n \in Nodes : Spawn(n)
    \/ \E n \in Nodes : NodeStep(n)

\* The pipeline of a self-driven source.
NextSource ==
    \/ \E n \in Nodes : Spawn(n)
    \/ \E n \in Nodes : NodeStep(n)

\* The pipeline of a self-driven source under a running clock.
NextTelemetry ==
    \/ NextSource
    \/ \E n \in Nodes : Tick(n)

\* The pipeline with its handles in a Graph.
NextGraph ==
    \/ Next
    \/ GraphStep

\* Each thread, once spawned, is scheduled again and again; the caller spawns
\* every instance sooner or later.
Fairness ==
    /\ \A n \in Nodes : WF_vars(Spawn(n))
    /\ \A n \in Nodes : WF_vars(NodeStep(n))

Spec == Init /\ [][Next]_vars
SpecBackpressure == InitBackpressure /\ [][NextSource]_vars /\ Fairness
SpecShutdown == InitOverfull /\ [][Next]_vars /\ Fairness
SpecGraph == InitOverfull /\ [][NextGraph]_vars
SpecStartup == InitStartup /\ [][NextSource]_vars
SpecWiring == InitWiring /\ [][NextWiring]_vars
SpecTelemetry == InitTelemetry /\ [][NextTelemetry]_vars

\* ----------------------------------------------------------------- claims
IsPrefix(a, b) == Len(a) <= Len(b) /\ SubSeq(b, 1, Len(a)) = a

\* The thread of n has left 'main_loop by a break.
LeftLoop(n) == pc[n] \in {"stopping", "exiting", "stopped"}

\* In this step node n leaves 'main_loop because its input queue is closed.
ExitsOnClosedInput(n) == pc[n] = "rx_empty" /\ pc'[n] = "stopping"

\* C1. Closed-channel drain: whenever a consumer node leaves its main loop
\* because its input queue is closed, no item is left in that queue and every
\* item pushed to it has been passed to process, in send order.
C1_DrainBeforeExit ==
    [][\A n \in Nodes : ExitsOnClosedInput(n) =>
          /\ buf[InQ(n)] = << >>
          /\ procIn[n] = pushed[InQ(n)]]_vars

\* C2. FIFO, at-most-once delivery: on every connection whose two ends are
\* alive, what the consumer has passed to process is a prefix of what the
\* producer has pushed, and the rest is exactly the buffered items, in order.
C2_Fifo ==
    \A q \in Connected :
        ProducerAlive(q) /\ ConsumerAlive(q) =>
            /\ IsPrefix(procIn[q + 1], pushed[q])
            /\ pushed[q] = procIn[q + 1] \o buf[q]

\* C2 witness: a live connection with two items delivered and two buffered.
C2_Witness ==
    \E q \in Connected :
        /\ ProducerAlive(q) /\ ConsumerAlive(q)
        /\ Len(procIn[q + 1]) >= 1
        /\ Len(buf[q]) = Cap

\* The pipeline is wired as intended: the last node is a sink, so that no
\* node produces a value it cannot send.
CleanConfig == kind[NumNodes] = "sink" /\ AllSpawnable

\* What the origin has emitted so far: items 1..srcCount, in order.
Emitted == [i \in 1..srcCount |-> i]

\* A stage applied to a sequence: the Some results of process, in order.
RECURSIVE ApplyStage(_, _)
ApplyStage(k, seq) ==
    IF seq = << >> THEN << >>
    ELSE Process(k, Head(seq)) \o ApplyStage(k, Tail(seq))

\* The first node that consumes the origin's items.
FirstConsumer == IF extInput THEN 1 ELSE 2

\* What the stages before node n, applied in chain order, make of Emitted.
RECURSIVE Expected(_)
Expected(n) ==
    IF n <= FirstConsumer THEN Emitted
    ELSE ApplyStage(kind[n - 1], Expected(n - 1))

\* In this step the value node n was about to send goes away.
ValueGone(n) == IsSome(data[n]) /\ data'[n] = None

\* C3. Backpressure safety: a self-driven source with Cap+5 items and a
\* consumer that starts late.  A value a node holds for sending goes away
\* only by a successful push (or because the node has no consumer left);
\* node 2 sees a prefix of the emitted items at all times and, when every
\* thread is scheduled fairly and the pipeline is wired as intended, ends up
\* having passed all Cap+5 items to process, once each and in order.
C3_Backpressure ==
    /\ [][\A n \in Nodes : ValueGone(n) =>
            \/ ~HasOutput(n)
            \/ TxAbandoned(n)
            \/ pushed'[OutQ(n)] = Append(pushed[OutQ(n)], Unwrap(data[n]))]_vars
    /\ [](IsPrefix(procIn[2], Emitted))
    /\ (CleanConfig => <>(procIn[2] = [i \in 1..BackpressureItems |-> i]))

\* C3 witness: the producer is stalled on a full queue, holding the next
\* value, while the consumer has not been spawned yet.
C3_Witness ==
    /\ CleanConfig
    /\ pc[2] = "created"
    /\ pc[1] = "tx_full"
    /\ Len(buf[1]) = Cap
    /\ data[1] = Some(Cap + 1)

\* C4. Composition across the chain: what the sink has passed to process is
\* at all times a prefix of the stages applied in chain order to the emitted
\* items, and under fair scheduling, wired as intended, it ends up equal to
\* the stages applied to everything the source had to send.
C4_Composition ==
    /\ [](IsPrefix(procIn[NumNodes], Expected(NumNodes)))
    /\ (CleanConfig => <>(srcCount = nItems /\ procIn[NumNodes] = Expected(NumNodes)))

\* C4 witness: the sink has seen the whole transformed sequence, which has
\* at least two items.
C4_Witness ==
    /\ CleanConfig
    /\ srcCount = nItems
    /\ Len(procIn[NumNodes]) >= 2
    /\ procIn[NumNodes] = Expected(NumNodes)

\* C5. Fatal-contract enforcement: a node with no output connection that
\* holds a value from process does nothing else than panic; it never goes on
\* with the loop.
C5_FatalContract ==
    [][\A n \in Nodes :
         pc[n] = "send" /\ ~HasOutput(n) /\ pc'[n] # pc[n] => pc'[n] = "panicked"]_vars

\* C5 witness: a node without output has panicked after a process call.
C5_Witness ==
    \E n \in Nodes : ~HasOutput(n) /\ pc[n] = "panicked" /\ Len(procIn[n]) = 1

\* C6. Panic propagation: Graph.wait never returns normally when a thread
\* whose handle is registered has panicked.
C6_PanicSurfaced ==
    gstate = "returned" => \A i \in 1..Len(joined) : ~JoinIsErr(joined[i])

\* C7. Graph.wait joins the handles in registration order and returns only
\* when every registered thread has ended: the joined handles are a prefix
\* of the registered ones, each of them has ended, and a returned wait has
\* joined them all.
C7_WaitJoinsAll ==
    /\ IsPrefix(joined, handles)
    /\ \A i \in 1..Len(joined) : Terminated(joined[i])
    /\ gstate = "returned" => /\ joined = handles
                              /\ \A n \in Registered : Terminated(n)

\* C7 witness: wait has returned after joining all three handles, which were
\* registered in an order that is not the chain order.
C7_Witness ==
    /\ gstate = "returned"
    /\ Len(handles) = NumNodes
    /\ handles[1] # 1

\* The lifecycle logs of a thread that left its loop by a break and ended.
GracefulLogs == { << "start", "stop" >>, << "start", "proc", "stop" >> }

\* C8 as claimed. Lifecycle hooks on every termination path: a thread that
\* has ended called on_start once before any process and on_stop once after.
C8_HooksOnEveryPath ==
    \A n \in Nodes : Terminated(n) => events[n] \in GracefulLogs

\* C8 as amended. A thread that ended after leaving its loop called
\* on_start once before any process and on_stop once after the last; a thread
\* that ended by the missing-output panic called on_start once before its
\* process calls and never on_stop; no thread calls a hook out of this order.
C8_HooksOnLoopExit ==
    \A n \in Nodes :
        /\ pc[n] = "stopped" => events[n] \in GracefulLogs
        /\ pc[n] = "panicked" => events[n] = << "start", "proc" >>
        /\ \E g \in GracefulLogs : IsPrefix(events[n], g)

\* C8 witness: a thread has ended gracefully after calling process.
C8_Witness ==
    \E n \in Nodes : pc[n] = "stopped" /\ events[n] = << "start", "proc", "stop" >>

AllStopped == \A n \in Nodes : pc[n] = "stopped"

\* C9. Shutdown cascade: in a chain fed by the caller and wired as intended,
\* once the caller has dropped its Producer every node stops in the end
\* (fair scheduling), and a node leaves its loop only after the node before
\* it has stopped and released its queue ends (node 1: after the drop).
C9_Cascade ==
    (extInput /\ CleanConfig) =>
        /\ [](extDropped => <>AllStopped)
        /\ [](\A n \in Nodes : LeftLoop(n) =>
                 IF n = 1 THEN extDropped ELSE pc[n - 1] = "stopped")

\* C9 witness: the cascade is half way: node 1 has stopped, node 2 is
\* stopping, the sink still runs.
C9_Witness ==
    /\ extInput /\ CleanConfig
    /\ pc[1] = "stopped"
    /\ pc[2] = "stopping"
    /\ pc[3] \in {"loop", "rx_empty"}

\* The thread of n is inside 'main_loop.
InLoop(n) == pc[n] \in {"loop", "rx_empty", "send", "tx_full"}

\* C10. Termination cause: a thread leaves its main loop by a break only
\* when the producer of its input queue or the consumer of its output queue
\* is gone, and otherwise only by the missing-output panic.
C10_TerminationCause ==
    [][\A n \in Nodes : InLoop(n) /\ ~InLoop(n)' =>
         \/ pc'[n] = "stopping" /\ HasInput(n) /\ ~ProducerAlive(InQ(n))
         \/ pc'[n] = "stopping" /\ HasOutput(n) /\ ~ConsumerAlive(OutQ(n))
         \/ pc'[n] = "panicked" /\ ~HasOutput(n) /\ IsSome(data[n])]_vars

\* C10 witness: a node left its loop on the send side, its consumer gone.
C10_Witness ==
    \E n \in Nodes : pc[n] = "stopping" /\ Len(procIn[n]) >= 1 /\ HasOutput(n)
                     /\ ~ConsumerAlive(OutQ(n)) /\ ProducerAlive(InQ(n))

\* C11 (SpawnFailure): when the OS cannot create the thread of an instance,
\* spawn returns an error and the instance never runs: it is never at any
\* position of the thread, none of on_start, process and on_stop is ever
\* called for it, it pops no item from its input queue and pushes none to
\* its output queue, and there is no handle of it to register.
NeverRan(n) ==
    /\ pc[n] \in {"created", "spawn_failed"}
    /\ events[n] = << >>
    /\ procIn[n] = << >> /\ ~sawNone[n]
    /\ popped[n] = << >>
    /\ HasOutput(n) => pushed[OutQ(n)] = << >>
    /\ n \notin Registered
C11_SpawnFailure == \A n \in Nodes : ~spawnOk[n] => NeverRan(n)
\* The spawn of node 2 has failed while its producer has filled its input
\* queue and its consumer is polling an empty one; the handles of the two
\* other nodes are registered.
C11_Witness ==
    /\ pc[2] = "spawn_failed"
    /\ Len(buf[InQ(2)]) = Cap
    /\ pc[3] = "rx_empty"
    /\ Registered = Nodes \ {2}

\* C12 (ResourceControlFailure is non-fatal): whatever pinning and priority
\* elevation answer at thread start-up (each may succeed or fail, pinning may
\* not be asked for), the step that leaves start-up calls on_start, as the
\* first call of the node, and enters the main loop; a thread that got past
\* start-up has logged exactly the warnings of its failures.
C12_StartupStep ==
    \A n \in Nodes :
        pc[n] = "starting" /\ pc'[n] # "starting"
            => /\ pc'[n] = "loop"
               /\ events'[n] = << "start" >>
               /\ warned'[n] = StartupWarnings(n)
C12_ResourceControlNonFatal == [][C12_StartupStep]_vars
\* Node 2 could neither be pinned nor raised, node 3 could not be pinned,
\* and both have processed items in their loops.
C12_Witness ==
    /\ warned[2] = {"pin", "prio"}
    /\ warned[3] = {"pin"}
    /\ pinRes[1] = "none"
    /\ events[2] = << "start", "proc" >>
    /\ Len(procIn[3]) >= 1

\* C13 (backpressure is local to a connection): a running node whose own
\* input queue is non-empty (or absent) can take its receive-and-process
\* step, and that step calls process and does not stall; a node whose own
\* output queue has room can take its send step, and that step pushes the
\* value and ends the iteration. Both hold in every reachable state, that is
\* for every fill level and closed state of the other queues. A node starts
\* to stall only on its own empty input or its own full output, and only the
\* node itself makes its input emptier or its output fuller, so a node that
\* is ready stays ready until it has acted.
InputReady(n) == pc[n] = "loop" /\ (HasInput(n) => buf[InQ(n)] # << >>)
OutputReady(n) == pc[n] = "send" /\ HasOutput(n) /\ Len(buf[OutQ(n)]) < Cap
C13_CanStep ==
    \A n \in Nodes : InputReady(n) \/ OutputReady(n) => ENABLED NodeStep(n)
C13_Step ==
    \A n \in Nodes :
        /\ InputReady(n) /\ pc'[n] # pc[n]
            => pc'[n] = "send" /\ events'[n][Len(events'[n])] = "proc"
        /\ InputReady(n) /\ pc'[n] = pc[n] /\ HasInput(n)
            => Len(buf'[InQ(n)]) >= Len(buf[InQ(n)]) \/ Len(popped'[n]) = Len(popped[n]) + 1
        /\ OutputReady(n) /\ pc'[n] # pc[n]
            => pc'[n] = "loop" /\ pushed'[OutQ(n)] = Append(pushed[OutQ(n)], Unwrap(data[n]))
        /\ OutputReady(n) /\ pc'[n] = pc[n]
            => Len(buf'[OutQ(n)]) <= Len(buf[OutQ(n)])
        /\ pc'[n] = "rx_empty" /\ pc[n] # "rx_empty"
            => HasInput(n) /\ buf[InQ(n)] = << >>
        /\ pc'[n] = "tx_full" /\ pc[n] # "tx_full"
            => HasOutput(n) /\ Len(buf[OutQ(n)]) = Cap
C13_LocalBackpressure == [] C13_CanStep /\ [][C13_Step]_vars
\* The consumer of queue 2 never ran and queue 2 is full; node 1 has pushed
\* more items than queue 1 and node 2 could have taken before queue 2 was
\* full, so it completed iterations behind a full and closed queue 2.
C13_Witness ==
    /\ pc[3] = "spawn_failed"
    /\ Len(buf[2]) = Cap
    /\ Len(pushed[1]) = 2 * Cap + 1

\* C14 (input contract of process): an instance with an input connection
\* has called process with Some(item) exactly once for each item it popped,
\* in pop order, and never with None; the items it popped are exactly those
\* that left its queue. An instance with no input connection has called
\* process with None only and has popped nothing.
C14_InputContract ==
    \A n \in Nodes :
        IF HasInput(n)
        THEN /\ procIn[n] = popped[n]
             /\ ~sawNone[n]
             /\ popped[n] \o buf[InQ(n)] = pushed[InQ(n)]
        ELSE /\ procIn[n] = << >>
             /\ popped[n] = << >>
\* The source has called process(None) and produced items, and node 2 has
\* popped and processed two of them.
C14_Witness ==
    /\ ~HasInput(1) /\ sawNone[1] /\ srcCount >= 2
    /\ HasInput(2) /\ Len(procIn[2]) = 2

\* C15 (a self-driven source may pause): a step in which an instance with no
\* input connection gets None back from process pushes nothing, changes no
\* queue and leaves the instance in its loop with nothing to send, where
\* its next step is another process(None) call; such an instance leaves its
\* loop only on the send side, because the consumer of its output is gone,
\* and never because process returned None.
C15_PauseStep ==
    pauses' # pauses
        => \A n \in Nodes :
             ~HasInput(n)
                => /\ pc[n] = "loop" /\ pc'[n] = "loop"
                   /\ data'[n] = None
                   /\ buf' = buf /\ pushed' = pushed
C15_PausedSourceRuns ==
    \A n \in Nodes :
        ~HasInput(n)
            => /\ pauses > 0 /\ pc[n] = "loop" => ENABLED SourceStep(n)
               /\ LeftLoop(n) => HasOutput(n) /\ TxAbandoned(n)
C15_SourceMayPause == [] C15_PausedSourceRuns /\ [][C15_PauseStep]_vars
\* The source has sent all its items, has got None from process more than
\* once since, and is in its loop.
C15_Witness ==
    /\ ~HasInput(1)
    /\ nItems >= 1 /\ srcCount = nItems
    /\ pauses = MaxPauses
    /\ pc[1] = "loop"

\* C16 (bounded capacity): every connection holds between 0 and Cap items in
\* every reachable state, the items it holds being those pushed and not yet
\* popped; a step taken while a queue holds Cap items adds no item to it:
\* nothing is recorded as pushed and the queue does not grow. (The capacity
\* is the one number Cap in every state.)
C16_Bounded ==
    \A q \in Connected :
        /\ Len(buf[q]) \in 0..Cap
        /\ Len(buf[q]) = Len(pushed[q]) - Len(popped[q + 1])
C16_FullStep ==
    \A q \in Connected :
        Len(buf[q]) = Cap => pushed'[q] = pushed[q] /\ Len(buf'[q]) <= Cap
C16_BoundedCapacity == [] C16_Bounded /\ [][C16_FullStep]_vars
\* Queue 1 holds Cap items and its producer has just found it full: the
\* value it tried to push is still in its hands.
C16_Witness ==
    /\ Len(buf[1]) = Cap
    /\ pc[1] = "tx_full"
    /\ IsSome(data[1])

\* C17 (single input / single output): after any sequence of set_receiver,
\* set_sender and connect_nodes! calls an instance holds at most one
\* consumer end and at most one producer end. A call that puts a new end
\* into a side that already held one takes the earlier end away from the
\* instance and drops it; a dropped end stays dropped, so the holder of the
\* other end of that queue sees the queue as abandoned from then on.
C17_OneEndPerSide ==
    \A n \in Nodes : Cardinality(InputRx(n)) <= 1 /\ Cardinality(OutputTx(n)) <= 1
C17_AbandonedForPeer ==
    \A q \in Queues :
        /\ rxAt[q] = EndDropped => ~ConsumerAlive(q)
        /\ txAt[q] = EndDropped => ~ProducerAlive(q)
C17_ReplaceStep ==
    \A q \in Queues :
        /\ rxAt[q] \in Nodes /\ rxAt'[q] # rxAt[q]
            => /\ rxAt'[q] = EndDropped
               /\ \E p \in Queues \ {q} : rxAt'[p] = rxAt[q] /\ rxAt[p] # rxAt[q]
        /\ txAt[q] \in Nodes /\ txAt'[q] # txAt[q]
            => /\ txAt'[q] = EndDropped
               /\ \E p \in Queues \ {q} : txAt'[p] = txAt[q] /\ txAt[p] # txAt[q]
        /\ rxAt[q] = EndDropped => rxAt'[q] = EndDropped
        /\ txAt[q] = EndDropped => txAt'[q] = EndDropped
C17_SingleEnds ==
    [] (C17_OneEndPerSide /\ C17_AbandonedForPeer) /\ [][C17_ReplaceStep]_vars
\* Node 2 was connected behind node 1 and then behind node 3: it holds the
\* consumer end of the second queue only, and node 1, still holding the
\* producer end of the first queue, sees that queue as abandoned.
C17_Witness ==
    /\ txAt[0] = 1 /\ rxAt[0] = EndDropped
    /\ txAt[1] = 3 /\ rxAt[1] = 2
    /\ InputRx(2) = {1}
    /\ OutQ(1) = 0 /\ TxAbandoned(1)

\* C18 (telemetry window): a step emits a telemetry report of a node only
\* when a second has passed since the node's previous report (or since its
\* loop began) and the step completes a loop iteration of that node: process
\* returned nothing to send, or the push succeeded. Right after the report
\* the bytes counter and the receive, process and send accumulators are all
\* zero and the window starts over. A node inside a receive or send retry
\* loop emits no report and keeps its counters, however long the clock runs.
ReportStep(n) ==
    \/ telem[n].due /\ ~telem'[n].due
    \/ ~telem[n].reported /\ telem'[n].reported
IterationEnds(n) ==
    \/ pc[n] = "loop" /\ pc'[n] = "loop" /\ events'[n][Len(events'[n])] = "proc" /\ data'[n] = None
    \/ pc[n] = "send" /\ pc'[n] = "loop" /\ Len(pushed'[OutQ(n)]) = Len(pushed[OutQ(n)]) + 1
C18_Step ==
    \A n \in Nodes :
        /\ ReportStep(n)
            => /\ telem[n].due
               /\ IterationEnds(n)
               /\ telem'[n] = [bytes |-> 0, recv |-> 0, proc |-> 0, send |-> 0,
                                due |-> FALSE, reported |-> TRUE]
        /\ pc[n] \in {"rx_empty", "tx_full"}
            => telem'[n] = telem[n] \/ telem'[n] = [telem[n] EXCEPT !.due = TRUE]
C18_TelemetryWindow == [][C18_Step]_vars
\* Node 2 has processed items and has just reported, with all its counters
\* at zero, while node 3 sits in its receive retry loop, its second long
\* over and no report made.
C18_Witness ==
    /\ Len(procIn[2]) >= 1
    /\ telem[2] = [bytes |-> 0, recv |-> 0, proc |-> 0, send |-> 0, due |-> FALSE, reported |-> TRUE]
    /\ pc[3] = "rx_empty" /\ telem[3].due /\ ~telem[3].reported

\* C19 (no graceful stop with a self-driven source): in a linear chain whose
\* first node has no input connection, whose threads can all be created and
\* in which no node produces a value it cannot send, no thread ever leaves
\* its main loop: no node is ever stopping, exiting, stopped or panicked, so
\* no handle is ever joined and a Graph.wait over registered handles of the
\* chain does not return.
C19_NoGracefulStop ==
    ~extInput /\ CleanConfig
        => /\ \A n \in Nodes : pc[n] \in {"created", "starting"} \/ InLoop(n)
           /\ joined = << >>
           /\ gstate = "returned" => handles = << >>
\* The source has sent everything and is pausing, the sink has consumed
\* everything and polls an empty queue, all handles are registered and the
\* caller is inside wait, which has joined nothing.
C19_Witness ==
    /\ ~extInput /\ CleanConfig /\ kind[2] = "mul2"
    /\ srcCount = nItems /\ pauses = MaxPauses
    /\ Len(procIn[NumNodes]) = nItems
    /\ pc[NumNodes] = "rx_empty"
    /\ Len(handles) = NumNodes /\ gstate = "waiting" /\ joined = << >>

\* C20 (consumer loss is noticed only on a full queue): while the queue has
\* room, a push of a node whose consumer is gone succeeds like any other,
\* and what is buffered behind a gone consumer is never taken out. A node
\* starts its send retry only after a push that found the queue full, and
\* it leaves its loop on the send side only from there, holding a value,
\* with the consumer gone. A node that has never produced a value is never
\* sending or retrying, and if it has left its loop, then because its input
\* was closed.
EverSome(n) ==
    IF HasInput(n)
    THEN \E i \in 1..Len(procIn[n]) : IsSome(Process(kind[n], procIn[n][i]))
    ELSE srcCount > 0
C20_Step ==
    \A n \in Nodes :
        /\ pc[n] = "send" /\ HasOutput(n) /\ Len(buf[OutQ(n)]) < Cap /\ pc'[n] # pc[n]
            => /\ pc'[n] = "loop"
               /\ buf'[OutQ(n)] = Append(buf[OutQ(n)], Unwrap(data[n]))
        /\ pc'[n] = "tx_full" /\ pc[n] # "tx_full"
            => pc[n] = "send" /\ HasOutput(n) /\ Len(buf[OutQ(n)]) = Cap
        /\ InLoop(n) /\ pc'[n] = "stopping"
            => \/ pc[n] = "rx_empty" /\ RxAbandoned(n)
               \/ pc[n] = "tx_full" /\ IsSome(data[n]) /\ TxAbandoned(n)
        /\ HasOutput(n) /\ TxAbandoned(n) => IsPrefix(buf[OutQ(n)], buf'[OutQ(n)])
C20_NeverSome ==
    \A n \in Nodes :
        HasOutput(n) /\ ~EverSome(n)
            => /\ pc[n] \notin {"send", "tx_full"}
               /\ LeftLoop(n) => HasInput(n) /\ RxAbandoned(n)
C20_LossSeenOnFullQueue == [] C20_NeverSome /\ [][C20_Step]_vars
\* The consumer of queue 2 never ran; node 2 has filled the queue all the
\* same and has left its loop on the send side, its own producer alive.
C20_Witness ==
    /\ pc[3] = "spawn_failed"
    /\ Len(buf[2]) = Cap /\ Len(pushed[2]) = Cap
    /\ pc[2] = "stopping"
    /\ ProducerAlive(InQ(2))

\* C21 (queue ends are released after on_stop): a node that left its loop by
\* a break keeps both queue ends while on_stop is pending or running, and
\* its thread has ended only with on_stop as its last logged call. So in the
\* step in which a downstream node finds its input queue abandoned, an
\* upstream node that did not panic and was spawned has already completed
\* on_stop, while the downstream node has not yet called its own.
StopLogged(n) == events[n] # << >> /\ events[n][Len(events[n])] = "stop"
C21_EndsHeldUntilStopped ==
    \A n \in Nodes :
        /\ pc[n] \in {"stopping", "exiting"}
            => /\ HasInput(n) => ConsumerAlive(InQ(n))
               /\ HasOutput(n) => ProducerAlive(OutQ(n))
        /\ pc[n] = "exiting" \/ pc[n] = "stopped" => StopLogged(n)
C21_ObserveStep ==
    \A m \in Nodes :
        pc[m] = "rx_empty" /\ pc'[m] = "stopping" /\ txAt[InQ(m)] \in Nodes
            => LET u == txAt[InQ(m)]
               IN pc[u] \notin {"panicked", "spawn_failed"}
                    => /\ pc[u] = "stopped"
                       /\ StopLogged(u)
                       /\ ~StopLogged(m) /\ events'[m] = events[m]
C21_StopBeforeRelease == [] C21_EndsHeldUntilStopped /\ [][C21_ObserveStep]_vars
\* Node 1 has stopped gracefully; node 2, whose consumer is still there, has
\* found its input abandoned and has completed its own on_stop after it.
C21_Witness ==
    /\ pc[1] = "stopped" /\ StopLogged(1)
    /\ pc[2] = "exiting" /\ StopLogged(2)
    /\ ConsumerAlive(OutQ(2))

====
